---- MODULE Spec2Model ----
(***************************************************************************)
(* State-machine model of bokehjs/src/lib/models/tools/gestures/           *)
(* select_tool.ts: the SelectTool model (default mode, clear signal, menu)  *)
(* and its views (SelectToolView: renderer grouping, mode resolution,      *)
(* clear, select, selection-geometry event).                               *)
(*                                                                         *)
(* One SelectTool model is shared by the tool views of several plots; a    *)
(* view is named by the plot view that owns it.  Collaborators that are   *)
(* not part of select_tool.ts (compute_renderers, the selection manager,   *)
(* the scales, the signal) are modelled by what the handlers observe of    *)
(* them: every call a handler makes on a collaborator is appended to log,  *)
(* which holds the calls of the most recent handler invocation, in order   *)
(* (the drag and the reconfiguration scenario keep earlier calls too).     *)
(***************************************************************************)
EXTENDS Integers, Sequences, FiniteSets, TLC

(***************************************************************************)
(* Universes and bounds                                                    *)
(***************************************************************************)

\* Renderer ids.  A is a GlyphRenderer, B a GraphRenderer, C a DataRenderer
\* that is neither (the `else continue` branch of the grouping loop).
Renderers == {"A", "B", "C"}

\* Data source ids.
Sources == {"S", "T"}

\* Plot views; the tool view built for plot view v is called v as well.
\* Plot view "p1" is the plot the renderers are added to, "p2" is a second
\* plot that shares the tool.
PlotViews == <<"p1", "p2">>

Views == {PlotViews[i] : i \in DOMAIN PlotViews}

\* core/enums SelectionMode
SelectionMode == {"replace", "append", "intersect", "subtract"}

\* Rows of a data source that a selection can hold: 1..NumRows.
NumRows == 1

Rows == 1..NumRows

\* Screen coordinates range over 0..MaxCoord.
MaxCoord == 2

Coords == 0..MaxCoord

\* Longest poly geometry (number of vertices).
MaxPolyLen == 2

\* Keys.Esc of core/dom, as compared in _keyup.
Keys_Esc == 27

KeyCodes == {Keys_Esc, Keys_Esc + 1}

VARIABLES
  data_source,     \* r.data_source.id (GraphRenderer: r.node_renderer.data_source.id)
  plot_renderers,  \* plot_model.renderers of each plot view, in order
  renderer_views,  \* plot_view.renderer_views of each plot view: ids with a live view
  renderers,       \* model.renderers: the renderer scope ('auto' or a list)
  names,           \* model.names
  mode,            \* model.mode: the tool's default selection mode
  active,          \* model.active
  callback,        \* whether (model as any).callback != null
  clear,           \* model.clear: the slots connected to the signal, in order
  xscale,          \* plot_view.frame.xscales.default of each plot view
  yscale,          \* plot_view.frame.yscales.default of each plot view
  selection,       \* the selection each data source's selection manager holds
  last,            \* the most recent handler invocation, with its arguments
  log              \* the collaborator calls that invocation made, in order

config == <<data_source, plot_renderers, renderer_views, renderers, names,
            callback, clear, xscale, yscale>>

vars == <<data_source, plot_renderers, renderer_views, renderers, names, mode,
          active, callback, clear, xscale, yscale, selection, last, log>>

(***************************************************************************)
(* Collaborators (code outside select_tool.ts)                             *)
(***************************************************************************)

\* instanceof tests of the grouping loop
Kind(r) == CASE r = "A" -> "GlyphRenderer" [] r = "B" -> "GraphRenderer" [] OTHER -> "DataRenderer"

\* r.name
Name(r) == CASE r = "A" -> "a" [] r = "B" -> "b" [] OTHER -> "a"

RECURSIVE Filter(_, _)
\* the subsequence of seq whose elements are in the set keep
Filter(seq, keep) == IF seq = <<>> THEN <<>> ELSE (IF Head(seq) \in keep THEN <<Head(seq)>> ELSE <<>>) \o Filter(Tail(seq), keep)

Range(seq) == {seq[i] : i \in DOMAIN seq}

\* models/tools/util compute_renderers(renderers, all_renderers, names):
\* the scope resolved against the plot's renderers, in the plot's order,
\* then the name filter when there is one.
compute_renderers(rs, all_renderers, ns) ==
  LET scoped == IF rs.auto THEN Filter(all_renderers, Renderers) ELSE Filter(all_renderers, Range(rs.list))
  IN  IF ns = <<>> THEN scoped ELSE Filter(scoped, {r \in Renderers : Name(r) \in Range(ns)})

\* r.get_selection_manager(): the manager owned by the data source of r
\* (of the node renderer of a graph renderer); named by that source.
get_selection_manager(r) == data_source[r]

\* the screen extent of a geometry along x
Extent(geometry) ==
  CASE geometry.type = "rect" -> geometry.sx0..geometry.sx1
    [] geometry.type = "poly" -> {geometry.sx[i] : i \in DOMAIN geometry.sx}
    [] OTHER -> {geometry.sx}

\* the hit test of SelectionManager.select: the rows the views draw within
\* the geometry (row i is drawn at screen x = i); nothing without a view
hit_test(views, geometry) == IF views = <<>> THEN {} ELSE Rows \cap Extent(geometry)

\* the update of SelectionManager.select: the hit-test result replaces,
\* extends, narrows or reduces what the source holds
sm_select(selected, hit, m) ==
  CASE m = "replace" -> hit
    [] m = "append" -> selected \cup hit
    [] m = "intersect" -> selected \cap hit
    [] OTHER -> selected \ hit

\* Scale.invert, Scale.r_invert, Scale.v_invert of a scale
\* [factor, offset, is_reversed]
invert(scale, sx) == scale.factor * sx + scale.offset

r_invert(scale, sx0, sx1) == IF scale.is_reversed THEN <<invert(scale, sx1), invert(scale, sx0)>> ELSE <<invert(scale, sx0), invert(scale, sx1)>>

v_invert(scale, sxs) == [i \in DOMAIN sxs |-> invert(scale, sxs[i])]

(***************************************************************************)
(* SelectToolView                                                          *)
(***************************************************************************)

\* computed_renderers with the scope the tool was constructed with
computed_renderers_initial_scope(v) == compute_renderers([auto |-> TRUE, list |-> <<>>], plot_renderers[v], names)

\* get computed_renderers()
computed_renderers(v) == compute_renderers(renderers, plot_renderers[v], names)

\* push that puts the renderer at the front of its sequence
push_front(by_source, source_id, r) ==
  IF source_id \in Range(by_source.keys)
  THEN [by_source EXCEPT !.map = [@ EXCEPT ![source_id] = <<r>> \o @]]
  ELSE [keys |-> Append(by_source.keys, source_id), map |-> [id \in Range(by_source.keys) \cup {source_id} |-> IF id = source_id THEN <<r>> ELSE by_source.map[id]]]

\* push that starts a new sequence whether or not the entry exists
push_overwrite(by_source, source_id, r) ==
  [keys |-> IF source_id \in Range(by_source.keys) THEN by_source.keys ELSE Append(by_source.keys, source_id),
   map |-> [id \in Range(by_source.keys) \cup {source_id} |-> IF id = source_id THEN <<r>> ELSE by_source.map[id]]]

\* renderers_by_source[source_id].push(r), creating the entry on first use.
\* The object is a record: keys in insertion order, and the map itself.
push(by_source, source_id, r) ==
  IF source_id \in Range(by_source.keys)
  THEN [by_source EXCEPT !.map = [@ EXCEPT ![source_id] = Append(@, r)]]
  ELSE [keys |-> Append(by_source.keys, source_id), map |-> [id \in Range(by_source.keys) \cup {source_id} |-> IF id = source_id THEN <<r>> ELSE by_source.map[id]]]

\* the grouping loop keyed by the renderer's own id
group_step_by_renderer(by_source, r) ==
  IF Kind(r) = "GlyphRenderer" THEN push(by_source, r, r)
  ELSE IF Kind(r) = "GraphRenderer" THEN push(by_source, r, r)
  ELSE by_source

\* the body of the grouping loop for one renderer
group_step(by_source, r) ==
  IF Kind(r) = "GlyphRenderer" THEN push(by_source, data_source[r], r)
  ELSE IF Kind(r) = "GraphRenderer" THEN push(by_source, data_source[r], r)
  ELSE by_source

RECURSIVE group_loop(_, _)
group_loop(by_source, rs) == IF rs = <<>> THEN by_source ELSE group_loop(group_step(by_source, Head(rs)), Tail(rs))

_computed_renderers_by_data_source(v) == group_loop([keys |-> <<>>, map |-> <<>>], computed_renderers(v))

\* _select_mode that keeps the mode it resolved for the previous event
_select_mode_sticky(ev) ==
  IF last.op = "_select_mode" THEN last.result
  ELSE IF ~ev.shiftKey /\ ~ev.ctrlKey THEN mode
  ELSE IF ev.shiftKey /\ ~ev.ctrlKey THEN "append"
  ELSE IF ~ev.shiftKey /\ ev.ctrlKey THEN "intersect"
  ELSE "subtract"

\* _select_mode with the results of ctrl and shift+ctrl exchanged
_select_mode_swapped(ev) ==
  IF ~ev.shiftKey /\ ~ev.ctrlKey THEN mode
  ELSE IF ev.shiftKey /\ ~ev.ctrlKey THEN "append"
  ELSE IF ~ev.shiftKey /\ ev.ctrlKey THEN "subtract"
  ELSE "intersect"

\* _select_mode(ev): ev is [shiftKey, ctrlKey]
_select_mode(ev) ==
  IF ~ev.shiftKey /\ ~ev.ctrlKey THEN mode
  ELSE IF ev.shiftKey /\ ~ev.ctrlKey THEN "append"
  ELSE IF ~ev.shiftKey /\ ev.ctrlKey THEN "intersect"
  ELSE IF ev.shiftKey /\ ev.ctrlKey THEN "subtract"
  ELSE "unreachable"

\* A handler runs on st = [selection, log]: the selections it has left so
\* far and the collaborator calls it has made so far.
Start == [selection |-> selection, log |-> <<>>]

\* renderer.get_selection_manager().clear()
sm_clear(st, r) ==
  [selection |-> [st.selection EXCEPT ![get_selection_manager(r)] = {}],
   log |-> Append(st.log, [call |-> "clear", sm |-> get_selection_manager(r), renderer |-> r])]

RECURSIVE clear_loop_grouped(_, _)
\* clear_loop that skips the renderers the grouping loop skips
clear_loop_grouped(st, rs) ==
  IF rs = <<>> THEN st
  ELSE clear_loop_grouped(IF Kind(Head(rs)) \in {"GlyphRenderer", "GraphRenderer"} THEN sm_clear(st, Head(rs)) ELSE st, Tail(rs))

RECURSIVE clear_loop(_, _)
clear_loop(st, rs) == IF rs = <<>> THEN st ELSE clear_loop(sm_clear(st, Head(rs)), Tail(rs))

\* this.plot_view.request_render()
request_render(st, v) == [st EXCEPT !.log = Append(@, [call |-> "request_render", plot_view |-> v])]

\* _clear that stops after the first computed renderer
_clear_first_only(st, v) ==
  request_render(IF computed_renderers(v) = <<>> THEN st ELSE sm_clear(st, Head(computed_renderers(v))), v)

\* _clear that requests a render only when it cleared something
_clear_render_if_any(st, v) ==
  IF computed_renderers(v) = <<>> THEN st ELSE request_render(clear_loop(st, computed_renderers(v)), v)

\* _clear()
_clear(st, v) == request_render(clear_loop(st, computed_renderers(v)), v)

RECURSIVE emit_loop(_, _)
\* Signal0.emit(): every connected slot runs, in connection order; the
\* slot connect_signals connects for view v is () => v._clear()
emit_loop(st, slots) == IF slots = <<>> THEN st ELSE emit_loop(_clear(st, Head(slots)), Tail(slots))

\* this.model.clear.emit()
clear_emit(st) == emit_loop(st, clear)

\* _keyup that clears on every key
_keyup_any_key(st, v, ev) == _clear(st, v)

\* _keyup that emits the clear signal on Escape
_keyup_emits(st, v, ev) == IF ev.keyCode = Keys_Esc THEN clear_emit(st) ELSE st

\* _keyup(ev): ev is [keyCode]
_keyup(st, v, ev) == IF ev.keyCode = Keys_Esc THEN _clear(st, v) ELSE st

\* geometry_data that inverts the two ends of a rect one by one
geometry_data_scalar_rect(v, geometry) ==
  LET xm == xscale[v]
      ym == yscale[v]
  IN  CASE geometry.type = "rect" -> [x0 |-> invert(xm, geometry.sx0), y0 |-> invert(ym, geometry.sy0), x1 |-> invert(xm, geometry.sx1), y1 |-> invert(ym, geometry.sy1)] @@ geometry
        [] geometry.type = "poly" -> [x |-> v_invert(xm, geometry.sx), y |-> v_invert(ym, geometry.sy)] @@ geometry
        [] OTHER -> [x |-> invert(xm, geometry.sx), y |-> invert(ym, geometry.sy)] @@ geometry

\* geometry_data whose span case inverts sy for x and sx for y
geometry_data_span_swapped(v, geometry) ==
  LET xm == xscale[v]
      ym == yscale[v]
  IN  CASE geometry.type = "point" -> [x |-> invert(xm, geometry.sx), y |-> invert(ym, geometry.sy)] @@ geometry
        [] geometry.type = "span" -> [x |-> invert(xm, geometry.sy), y |-> invert(ym, geometry.sx)] @@ geometry
        [] geometry.type = "rect" ->
             LET xs == r_invert(xm, geometry.sx0, geometry.sx1)
                 ys == r_invert(ym, geometry.sy0, geometry.sy1)
             IN  [x0 |-> xs[1], y0 |-> ys[1], x1 |-> xs[2], y1 |-> ys[2]] @@ geometry
        [] OTHER -> [x |-> v_invert(xm, geometry.sx), y |-> v_invert(ym, geometry.sy)] @@ geometry

\* the geometry_data of _emit_selection_event: {...geometry, x, y} keeps
\* every field of geometry and sets the data-space ones.  A type that no
\* case of the switch names leaves geometry_data unassigned.
geometry_data(v, geometry) ==
  LET xm == xscale[v]
      ym == yscale[v]
  IN  CASE geometry.type = "point" -> [x |-> invert(xm, geometry.sx), y |-> invert(ym, geometry.sy)] @@ geometry
        [] geometry.type = "span" -> [x |-> invert(xm, geometry.sx), y |-> invert(ym, geometry.sy)] @@ geometry
        [] geometry.type = "rect" ->
             LET xs == r_invert(xm, geometry.sx0, geometry.sx1)
                 ys == r_invert(ym, geometry.sy0, geometry.sy1)
             IN  [x0 |-> xs[1], y0 |-> ys[1], x1 |-> xs[2], y1 |-> ys[2]] @@ geometry
        [] geometry.type = "poly" -> [x |-> v_invert(xm, geometry.sx), y |-> v_invert(ym, geometry.sy)] @@ geometry
        [] OTHER -> [undefined |-> TRUE]

\* _emit_selection_event(geometry, final):
\* this.plot_model.trigger_event(new SelectionGeometry(geometry_data, final))
_emit_selection_event(st, v, geometry, final) ==
  [st EXCEPT !.log = Append(@, [call |-> "trigger_event", plot |-> v, event |-> "selectiongeometry", geometry |-> geometry_data(v, geometry), final |-> final])]

\* r_views without the test for a live view
r_views_unfiltered(v, rs) == rs

\* the views of the group's renderers that are in plot_view.renderer_views
r_views(v, rs) == Filter(rs, renderer_views[v])

\* select_group that makes no call when no renderer of the group has a view
select_group_live_only(st, v, rs, geometry, final, m) ==
  LET sm == get_selection_manager(rs[1])
      views == r_views(v, rs)
  IN  IF views = <<>> THEN st
      ELSE [selection |-> [st.selection EXCEPT ![sm] = sm_select(@, hit_test(views, geometry), m)],
            log |-> Append(st.log, [call |-> "select", sm |-> sm, r_views |-> views, geometry |-> geometry, final |-> final, mode |-> m])]

\* the body of the loop over renderers_by_source for one group:
\* sm.select(r_views, geometry, final, mode)
select_group(st, v, rs, geometry, final, m) ==
  LET sm == get_selection_manager(rs[1])
      views == r_views(v, rs)
  IN  [selection |-> [st.selection EXCEPT ![sm] = sm_select(@, hit_test(views, geometry), m)],
       log |-> Append(st.log, [call |-> "select", sm |-> sm, r_views |-> views, geometry |-> geometry, final |-> final, mode |-> m])]

RECURSIVE select_loop(_, _, _, _, _, _, _)
select_loop(st, v, by_source, ids, geometry, final, m) ==
  IF ids = <<>> THEN st
  ELSE select_loop(select_group(st, v, by_source.map[Head(ids)], geometry, final, m), v, by_source, Tail(ids), geometry, final, m)

\* (this as any)._emit_callback(geometry), when a callback is configured
_emit_callback(st, geometry) ==
  IF callback THEN [st EXCEPT !.log = Append(@, [call |-> "_emit_callback", geometry |-> geometry])] ELSE st

\* _select that does nothing once a render was requested during the drag
_select_unless_cleared(st, v, geometry, final, m) ==
  LET renderers_by_source == _computed_renderers_by_data_source(v)
      updated == select_loop(st, v, renderers_by_source, renderers_by_source.keys, geometry, final, m)
  IN  IF \E i \in DOMAIN st.log : st.log[i].call = "request_render" THEN st
      ELSE _emit_selection_event(_emit_callback(updated, geometry), v, geometry, final)

\* _select that publishes the event before it runs the callback
_select_event_first(st, v, geometry, final, m) ==
  LET renderers_by_source == _computed_renderers_by_data_source(v)
      updated == select_loop(st, v, renderers_by_source, renderers_by_source.keys, geometry, final, m)
  IN  _emit_callback(_emit_selection_event(updated, v, geometry, final), geometry)

\* _select(geometry, final, mode)
_select(st, v, geometry, final, m) ==
  LET renderers_by_source == _computed_renderers_by_data_source(v)
      updated == select_loop(st, v, renderers_by_source, renderers_by_source.keys, geometry, final, m)
  IN  _emit_selection_event(_emit_callback(updated, geometry), v, geometry, final)

(***************************************************************************)
(* SelectTool                                                              *)
(***************************************************************************)

\* connect_signals(): this.model.clear.connect(() => this._clear())
connect_signals(slots, v) == Append(slots, v)

(***************************************************************************)
(* Inputs                                                                  *)
(***************************************************************************)

\* core/geometry: the four shapes, all fields in screen space
PointGeometry == {[type |-> "point", sx |-> a, sy |-> b] : a \in Coords, b \in Coords}

SpanGeometry == {[type |-> "span", direction |-> d, sx |-> a, sy |-> b] : d \in {"h", "v"}, a \in Coords, b \in Coords}

RectGeometry == {[type |-> "rect", sx0 |-> a, sx1 |-> b, sy0 |-> c[1], sy1 |-> c[2]] : a \in Coords, b \in Coords, c \in {<<0, MaxCoord>>, <<MaxCoord, 0>>}}

\* the vertices of a poly lie on the corners of the screen
CoordSeqs(n) == [1..n -> {0, MaxCoord}]

PolyGeometry == UNION {{[type |-> "poly", sx |-> xs, sy |-> ys] : xs \in CoordSeqs(n), ys \in CoordSeqs(n)} : n \in 0..MaxPolyLen}

\* a geometry whose type is none of the four of core/geometry, as a caller
\* without type checking can pass one
OtherGeometry == {[type |-> "circle", sx |-> a, sy |-> b] : a \in Coords, b \in Coords}

\* the geometries of a drag in the dispatch scenario: a rect that grows
\* from nothing to the whole screen
DragGeometry == {[type |-> "rect", sx0 |-> 0, sx1 |-> b, sy0 |-> 0, sy1 |-> b] : b \in {0, MaxCoord}}

\* the modes the gestures of the dispatch scenario select with
DragModes == {"replace", "subtract"}

\* renderer scopes: 'auto', or an explicit list
Auto == [auto |-> TRUE, list |-> <<>>]

Scopes == {Auto, [auto |-> FALSE, list |-> <<"B", "A">>]}

\* scales: [factor, offset, is_reversed]
Scales == {[factor |-> f, offset |-> 1, is_reversed |-> rev] : f \in {2, -1}, rev \in BOOLEAN}

PlainScale == [factor |-> 2, offset |-> 1, is_reversed |-> FALSE]

\* the plot view the renderers of the model belong to
Home == PlotViews[1]

(***************************************************************************)
(* Initial state: the tool model with the defaults of init_SelectTool, and *)
(* the tool view of the home plot, built and connected.                    *)
(***************************************************************************)

InitTool ==
  /\ renderers = Auto
  /\ names = <<>>
  /\ mode = "replace"
  /\ active = FALSE
  /\ clear = connect_signals(<<>>, PlotViews[1])
  /\ last = [op |-> "initialize"]
  /\ log = <<>>

InitPlots ==
  /\ plot_renderers = [v \in Views |-> <<>>]
  /\ renderer_views = [v \in Views |-> {}]
  /\ selection = [s \in Sources |-> {}]

Init ==
  /\ InitTool
  /\ InitPlots
  /\ data_source \in [Renderers -> Sources]
  /\ callback \in BOOLEAN
  /\ xscale = [v \in Views |-> PlainScale]
  /\ yscale = [v \in Views |-> PlainScale]

(***************************************************************************)
(* The program around the tool: renderers come and go, views are built     *)
(***************************************************************************)

Configured == last' = [op |-> "configure"] /\ log' = <<>>

\* plot.renderers.push(r)
add_renderer(r) ==
  /\ r \notin Range(plot_renderers[Home])
  /\ plot_renderers' = [plot_renderers EXCEPT ![Home] = Append(@, r)]
  /\ Configured
  /\ UNCHANGED <<data_source, renderer_views, renderers, names, mode, active, callback, clear, xscale, yscale, selection>>

\* the plot view builds the renderer's view
build_view(r) ==
  /\ r \in Range(plot_renderers[Home])
  /\ r \notin renderer_views[Home]
  /\ renderer_views' = [renderer_views EXCEPT ![Home] = @ \cup {r}]
  /\ Configured
  /\ UNCHANGED <<data_source, plot_renderers, renderers, names, mode, active, callback, clear, xscale, yscale, selection>>

\* the renderer is taken off the plot, and its view with it
remove_renderer(r) ==
  /\ r \in Range(plot_renderers[Home])
  /\ plot_renderers' = [plot_renderers EXCEPT ![Home] = Filter(@, Renderers \ {r})]
  /\ renderer_views' = [renderer_views EXCEPT ![Home] = @ \ {r}]
  /\ Configured
  /\ UNCHANGED <<data_source, renderers, names, mode, active, callback, clear, xscale, yscale, selection>>

\* the next plot view that shares the tool builds its tool view
build_tool_view ==
  /\ Len(clear) < Len(PlotViews)
  /\ clear' = connect_signals(clear, PlotViews[Len(clear) + 1])
  /\ Configured
  /\ UNCHANGED <<data_source, plot_renderers, renderer_views, renderers, names, mode, active, callback, xscale, yscale, selection>>

\* tool.renderers = scope
set_renderers(scope) ==
  /\ renderers # scope
  /\ renderers' = scope
  /\ last' = [op |-> "configure"]
  /\ UNCHANGED <<data_source, plot_renderers, renderer_views, names, mode, active, callback, clear, xscale, yscale, selection, log>>

(***************************************************************************)
(* Handler invocations                                                     *)
(***************************************************************************)

Ran(st) == selection' = st.selection /\ log' = st.log

\* a subclass's gesture handler calls this._select(geometry, final, mode)
Call_select(v, geometry, final, m) ==
  /\ v \in Range(clear)
  /\ Ran(_select(Start, v, geometry, final, m))
  /\ last' = [op |-> "_select", view |-> v, geometry |-> geometry, final |-> final, mode |-> m]
  /\ UNCHANGED <<config, mode, active>>

\* the UI event bus delivers a key-up event to the view
Call_keyup(v, ev) ==
  /\ v \in Range(clear)
  /\ Ran(_keyup(Start, v, ev))
  /\ last' = [op |-> "_keyup", view |-> v, keyCode |-> ev.keyCode]
  /\ UNCHANGED <<config, mode, active>>

\* this._clear() called on the view
Call_clear(v) ==
  /\ v \in Range(clear)
  /\ Ran(_clear(Start, v))
  /\ last' = [op |-> "_clear", view |-> v]
  /\ UNCHANGED <<config, mode, active>>

\* the handler of the menu's clear item: this.clear.emit()
Menu_clear ==
  /\ Ran(clear_emit(Start))
  /\ last' = [op |-> "clear.emit"]
  /\ UNCHANGED <<config, mode, active>>

\* a gesture handler resolves the mode of an event: this._select_mode(ev)
Call_select_mode(v, ev) ==
  /\ v \in Range(clear)
  /\ last' = [op |-> "_select_mode", view |-> v, shiftKey |-> ev.shiftKey, ctrlKey |-> ev.ctrlKey, result |-> _select_mode(ev)]
  /\ log' = <<>>
  /\ UNCHANGED <<config, mode, active, selection>>

\* the handler of a mode item that sets the mode only
Menu_mode_only(m) ==
  /\ mode' = m
  /\ last' = [op |-> "menu", item |-> m]
  /\ log' = <<>>
  /\ UNCHANGED <<config, selection, active>>

\* the active test of the menu item of mode m: () => this.mode == m
menu_active(m) == mode = m

\* the handler of the menu item of mode m: this.mode = m; this.active = true
Menu_mode(m) ==
  /\ mode' = m
  /\ active' = TRUE
  /\ last' = [op |-> "menu", item |-> m]
  /\ log' = <<>>
  /\ UNCHANGED <<config, selection>>

Next ==
  \/ \E r \in Renderers : add_renderer(r)
  \/ \E r \in Renderers : build_view(r)
  \/ \E r \in Renderers : remove_renderer(r)
  \/ build_tool_view
  \/ \E g \in DragGeometry, final \in BOOLEAN, m \in DragModes : Call_select(Home, g, final, m)
  \/ \E v \in Views, k \in KeyCodes : Call_keyup(v, [keyCode |-> k])
  \/ \E v \in Views : Call_clear(v)
  \/ Menu_clear

Spec == Init /\ [][Next]_vars

(***************************************************************************)
(* The scenario of the end-to-end test: A and B share source S, C draws    *)
(* from T, all three are on the home plot with their views built.          *)
(***************************************************************************)

InitScenario ==
  /\ renderers = Auto
  /\ names = <<>>
  /\ active = FALSE
  /\ clear = connect_signals(<<>>, PlotViews[1])
  /\ last = [op |-> "initialize"]
  /\ log = <<>>
  /\ plot_renderers = [v \in Views |-> IF v = Home THEN <<"A", "B", "C">> ELSE <<>>]
  /\ renderer_views = [v \in Views |-> IF v = Home THEN {"A", "B", "C"} ELSE {}]
  /\ data_source = [r \in Renderers |-> IF r = "C" THEN "T" ELSE "S"]
  /\ selection = [s \in Sources |-> {}]
  /\ callback = FALSE

\* Mode scenario: the tool is constructed with any default mode; menu
\* handlers run, modes are resolved, and gestures select with the mode
\* resolved from their event.
InitMode ==
  /\ InitScenario
  /\ mode \in SelectionMode
  /\ xscale = [v \in Views |-> PlainScale]
  /\ yscale = [v \in Views |-> PlainScale]

UIEvents == [shiftKey : BOOLEAN, ctrlKey : BOOLEAN]

NextMode ==
  \/ build_tool_view
  \/ \E m \in SelectionMode : Menu_mode(m)
  \/ Menu_clear
  \/ \E v \in Views, ev \in UIEvents : Call_select_mode(v, ev)
  \/ \E ev \in UIEvents, g \in DragGeometry, final \in BOOLEAN : Call_select(Home, g, final, _select_mode(ev))

SpecMode == InitMode /\ [][NextMode]_vars

\* Geometry scenario: the home plot's frame has any pair of scales, and
\* gestures of every shape select with the tool's default mode.
InitGeom ==
  /\ InitScenario
  /\ mode = "replace"
  /\ \E xm \in Scales, ym \in Scales :
       /\ xscale = [v \in Views |-> IF v = Home THEN xm ELSE PlainScale]
       /\ yscale = [v \in Views |-> IF v = Home THEN ym ELSE PlainScale]

NextGeom ==
  \/ \E g \in PointGeometry, final \in BOOLEAN : Call_select(Home, g, final, mode)
  \/ \E g \in SpanGeometry, final \in BOOLEAN : Call_select(Home, g, final, mode)
  \/ \E g \in RectGeometry, final \in BOOLEAN : Call_select(Home, g, final, mode)
  \/ \E g \in PolyGeometry, final \in BOOLEAN : Call_select(Home, g, final, mode)

SpecGeom == InitGeom /\ [][NextGeom]_vars

(***************************************************************************)
(* Properties of the dispatch scenario (Spec)                              *)
(***************************************************************************)

\* the indices of the log entries of one kind of call
Calls(l, what) == {i \in DOMAIN l : l[i].call = what}

\* the renderers the grouping loop gives a data source identity
HasSource(r) == Kind(r) \in {"GlyphRenderer", "GraphRenderer"}

\* the renderers a group sequence holds
Flat(by_source) == UNION {Range(by_source.map[id]) : id \in Range(by_source.keys)}

\* C1: one _select call invokes select on the selection manager of a data
\* source exactly once when a glyph or graph renderer among the computed
\* renderers draws from that source, and not at all otherwise, however many
\* renderers share the source.
C1_OneSelectPerSource ==
  last.op = "_select" =>
    \A s \in Sources :
      Cardinality({i \in Calls(log, "select") : log[i].sm = s})
        = IF \E r \in Range(computed_renderers(last.view)) : HasSource(r) /\ data_source[r] = s THEN 1 ELSE 0

\* a _select over two renderers that share one source, which got one call
C1_Witness ==
  /\ last.op = "_select"
  /\ {"A", "B"} \subseteq Range(computed_renderers(last.view))
  /\ data_source["A"] = data_source["B"]
  /\ Cardinality(Calls(log, "select")) = 1

\* C2: the groups partition the computed renderers that are glyph or graph
\* renderers: together they hold exactly those, no renderer is held twice,
\* and two renderers are in one group exactly when their data source
\* identities are equal; the group of identity id is the one stored at id.
C2_GroupsPartition ==
  \A v \in Views :
    LET by_source == _computed_renderers_by_data_source(v)
        ids == Range(by_source.keys)
    IN  /\ Flat(by_source) = {r \in Range(computed_renderers(v)) : HasSource(r)}
        /\ Cardinality(ids) = Len(by_source.keys)
        /\ \A id \in ids : by_source.map[id] # <<>> /\ Cardinality(Range(by_source.map[id])) = Len(by_source.map[id])
        /\ \A id1 \in ids, id2 \in ids : id1 # id2 => Range(by_source.map[id1]) \cap Range(by_source.map[id2]) = {}
        /\ \A r1 \in Flat(by_source), r2 \in Flat(by_source) :
             (\E id \in ids : {r1, r2} \subseteq Range(by_source.map[id])) <=> data_source[r1] = data_source[r2]
        /\ \A id \in ids : \A r \in Range(by_source.map[id]) : data_source[r] = id

\* all three renderers computed, the glyph and the graph renderer sharing
\* a source: one group of two, and the third renderer in no group
C2_Witness ==
  LET by_source == _computed_renderers_by_data_source(Home)
  IN  /\ Len(computed_renderers(Home)) = 3
      /\ data_source["A"] = data_source["B"]
      /\ Len(by_source.keys) = 1
      /\ Len(by_source.map[by_source.keys[1]]) = 2

\* C4: each select call of a _select gets the views of exactly those grouped
\* renderers of its own data source that have a live view, in the order of
\* the computed renderers, and the geometry, the final flag and the mode that
\* _select was called with.
C4_SelectArguments ==
  last.op = "_select" =>
    \A i \in Calls(log, "select") :
      /\ log[i].r_views = Filter(computed_renderers(last.view), {r \in renderer_views[last.view] : HasSource(r) /\ data_source[r] = log[i].sm})
      /\ log[i].geometry = last.geometry
      /\ log[i].final = last.final
      /\ log[i].mode = last.mode

\* a _select over two groups, one of them with a renderer that has no view
C4_Witness ==
  /\ last.op = "_select"
  /\ last.final
  /\ Cardinality(Calls(log, "select")) = 2
  /\ \E i \in Calls(log, "select") : log[i].r_views = <<>>
  /\ \E i \in Calls(log, "select") : log[i].r_views # <<>>

\* the number of render requests a log holds for plot view v
Renders(l, v) == Cardinality({i \in Calls(l, "request_render") : l[i].plot_view = v})

\* the renderers whose selection manager a log clears, in order
Cleared(l) == LET clears == SelectSeq(l, LAMBDA e : e.call = "clear") IN [i \in DOMAIN clears |-> clears[i].renderer]

\* the last handler invocation was an Escape key-up
EscapeKeyup(l) == l.op = "_keyup" /\ l.keyCode = Keys_Esc

\* the selections after the sources of the computed renderers of v are cleared
ClearedFor(sel, v) == [s \in Sources |-> IF \E r \in Range(computed_renderers(v)) : data_source[r] = s THEN {} ELSE sel[s]]

C7_ClearIdempotent ==
  last.op = "_clear" =>
    LET again == _clear(Start, last.view)
    IN  /\ \A r \in Range(computed_renderers(last.view)) : selection[data_source[r]] = {}
        /\ Cardinality(Calls(log, "request_render")) = 1
        /\ Renders(log, last.view) = 1
        /\ again.selection = selection
        /\ Cardinality(Calls(again.log, "request_render")) = 1

\* a _clear over two computed renderers of different sources
C7_Witness ==
  /\ last.op = "_clear"
  /\ Cardinality({log[i].sm : i \in Calls(log, "clear")}) = 2

\* C8: the log of a _select is the select calls of the groups, then the
\* callback call exactly when a callback is configured, then one selection
\* event, which carries the final flag of the call.
C8_SelectOrder ==
  last.op = "_select" =>
    LET n == Len(log)
        groups == n - (IF callback THEN 2 ELSE 1)
    IN  /\ groups >= 0
        /\ \A i \in 1..groups : log[i].call = "select"
        /\ callback => log[n - 1].call = "_emit_callback" /\ log[n - 1].geometry = last.geometry
        /\ log[n].call = "trigger_event"
        /\ log[n].final = last.final
        /\ Cardinality(Calls(log, "trigger_event")) = 1

\* an intermediate _select over two groups with a callback configured
C8_Witness ==
  /\ last.op = "_select"
  /\ ~last.final
  /\ callback
  /\ Cardinality(Calls(log, "select")) = 2
  /\ Len(log) = 4

(***************************************************************************)
(* Properties of the mode scenario (SpecMode)                              *)
(***************************************************************************)

\* C3: _select_mode returns the tool's default mode with neither key held,
\* append with shift only, intersect with ctrl only and subtract with both,
\* whatever view resolves it and whatever the selections and the rest of the
\* state are.
C3_SelectModeTable ==
  last.op = "_select_mode" =>
    /\ (~last.shiftKey /\ ~last.ctrlKey) => last.result = mode
    /\ (last.shiftKey /\ ~last.ctrlKey) => last.result = "append"
    /\ (~last.shiftKey /\ last.ctrlKey) => last.result = "intersect"
    /\ (last.shiftKey /\ last.ctrlKey) => last.result = "subtract"
    /\ last.result \in SelectionMode

\* ctrl alone resolved to intersect while the default mode, set from the
\* menu, is subtract and a source holds a selection
C3_Witness ==
  /\ last.op = "_select_mode"
  /\ ~last.shiftKey /\ last.ctrlKey
  /\ last.result = "intersect"
  /\ mode = "subtract"
  /\ active
  /\ \E s \in Sources : selection[s] # {}

(***************************************************************************)
(* Properties of the geometry scenario (SpecGeom)                          *)
(***************************************************************************)

\* the geometry of the selection event a _select published
Published == log[Len(log)].geometry

\* C9: the event of a rect geometry carries (x0, x1) = x_scale.r_invert(sx0,
\* sx1) and (y0, y1) = y_scale.r_invert(sy0, sy1).
C9_RectUsesRangeInversion ==
  (last.op = "_select" /\ last.geometry.type = "rect") =>
    LET g == last.geometry
    IN  /\ <<Published.x0, Published.x1>> = r_invert(xscale[last.view], g.sx0, g.sx1)
        /\ <<Published.y0, Published.y1>> = r_invert(yscale[last.view], g.sy0, g.sy1)

\* a rect on scales whose range inversion differs, on both axes, from the
\* pair of the two scalar inversions
C9_Witness ==
  /\ last.op = "_select"
  /\ last.geometry.type = "rect"
  /\ LET g == last.geometry
         xm == xscale[last.view]
         ym == yscale[last.view]
     IN  /\ r_invert(xm, g.sx0, g.sx1) # <<invert(xm, g.sx0), invert(xm, g.sx1)>>
         /\ r_invert(ym, g.sy0, g.sy1) # <<invert(ym, g.sy0), invert(ym, g.sy1)>>

\* C10: the event of a point or span geometry carries x = x_scale.invert(sx)
\* and y = y_scale.invert(sy); the event of a poly geometry carries the
\* element-wise inversions of sx and sy; the event of any geometry carries
\* every field of the geometry unchanged, the type among them, and the
\* select calls made before it received the geometry itself.
C10_PointSpanPolyInversion ==
  last.op = "_select" =>
    LET g == last.geometry
        xm == xscale[last.view]
        ym == yscale[last.view]
    IN  /\ g.type \in {"point", "span"} => Published.x = invert(xm, g.sx) /\ Published.y = invert(ym, g.sy)
        /\ g.type = "poly" =>
             /\ Len(Published.x) = Len(g.sx) /\ Len(Published.y) = Len(g.sy)
             /\ \A i \in DOMAIN g.sx : Published.x[i] = invert(xm, g.sx[i])
             /\ \A i \in DOMAIN g.sy : Published.y[i] = invert(ym, g.sy[i])
        /\ \A f \in DOMAIN g : Published[f] = g[f]
        /\ DOMAIN Published = DOMAIN g \cup (IF g.type = "rect" THEN {"x0", "y0", "x1", "y1"} ELSE {"x", "y"})
        /\ \A i \in Calls(log, "select") : log[i].geometry = g

\* a poly of the longest length whose vertices differ, on scales that differ
C10_Witness ==
  /\ last.op = "_select"
  /\ last.geometry.type = "poly"
  /\ Len(last.geometry.sx) = MaxPolyLen
  /\ last.geometry.sx[1] # last.geometry.sx[MaxPolyLen]
  /\ last.geometry.sx # last.geometry.sy
  /\ xscale[last.view] # yscale[last.view]
  /\ Published.x # Published.y

(***************************************************************************)
(* Renderers outside the groups (Spec)                                     *)
(***************************************************************************)

\* C11: a computed renderer that is neither a glyph nor a graph renderer is
\* in no group of its view, and no select call of a _select is made through
\* it: every select call goes to the source of a glyph or graph renderer
\* among the computed renderers and gets views of such renderers only.  A
\* _clear, called directly, from an Escape key-up or from the clear signal,
\* calls clear on the selection manager of every computed renderer, grouped
\* or not, each through that renderer.
C11_UngroupedStillCleared ==
  /\ \A v \in Views : \A r \in Range(computed_renderers(v)) :
       ~HasSource(r) => r \notin Flat(_computed_renderers_by_data_source(v))
  /\ last.op = "_select" =>
       \A i \in Calls(log, "select") :
         /\ \A r \in Range(log[i].r_views) : HasSource(r)
         /\ \E r \in Range(computed_renderers(last.view)) : HasSource(r) /\ data_source[r] = log[i].sm
  /\ (last.op = "_clear" \/ EscapeKeyup(last)) =>
       /\ Cleared(log) = computed_renderers(last.view)
       /\ \A i \in Calls(log, "clear") : log[i].sm = data_source[log[i].renderer]
  /\ last.op = "clear.emit" =>
       \A v \in Range(clear) : \A r \in Range(computed_renderers(v)) :
         \E i \in Calls(log, "clear") : log[i].renderer = r /\ log[i].sm = data_source[r]

\* a _clear over a glyph renderer and a renderer that is neither, of
\* different sources: clear was called on the source of the ungrouped one
C11_Witness ==
  /\ last.op = "_clear"
  /\ {"A", "C"} \subseteq Range(computed_renderers(last.view))
  /\ ~HasSource("C")
  /\ data_source["C"] # data_source["A"]
  /\ Len(_computed_renderers_by_data_source(last.view).keys) = 1
  /\ \E i \in Calls(log, "clear") : log[i].renderer = "C" /\ log[i].sm = data_source["C"]

(***************************************************************************)
(* Unknown shape scenario: gestures select with rect geometries and with   *)
(* geometries of a type _emit_selection_event has no case for.             *)
(***************************************************************************)

NextTag ==
  \/ \E g \in RectGeometry, final \in BOOLEAN : Call_select(Home, g, final, mode)
  \/ \E g \in OtherGeometry, final \in BOOLEAN : Call_select(Home, g, final, mode)

SpecTag == InitGeom /\ [][NextTag]_vars

\* the types the switch of _emit_selection_event has a case for
GeometryTypes == {"point", "span", "rect", "poly"}

\* C12 as stated: a _select with a geometry of a type that is none of point,
\* span, rect and poly fails in the conversion and publishes no selection
\* event for that geometry.
C12_UnknownTagPublishesNothing ==
  (last.op = "_select" /\ last.geometry.type \notin GeometryTypes) => Calls(log, "trigger_event") = {}

(***************************************************************************)
(* Mode resolution keeps no state (SpecMode)                               *)
(***************************************************************************)

\* the mode two flags select over a default mode
ResolvedMode(default, shiftKey, ctrlKey) ==
  CASE shiftKey /\ ctrlKey -> "subtract"
    [] shiftKey /\ ~ctrlKey -> "append"
    [] ~shiftKey /\ ctrlKey -> "intersect"
    [] OTHER -> default

\* C13: a _select_mode or a _select leaves the tool's default mode as it
\* is; a _select_mode also leaves the selections as they are, and its
\* result is a function of the flags of its own event and of the default
\* mode at the time alone: it is the same whatever event was resolved before
\* it and whatever the sources hold, and two resolutions in a row with the
\* same flags give the same result.
C13_ModeResolutionStateless ==
  [][last'.op \in {"_select_mode", "_select"} =>
       /\ mode' = mode
       /\ active' = active
       /\ last'.op = "_select_mode" =>
            /\ selection' = selection
            /\ last'.result = ResolvedMode(mode, last'.shiftKey, last'.ctrlKey)
            /\ (last.op = "_select_mode" /\ last.shiftKey = last'.shiftKey /\ last.ctrlKey = last'.ctrlKey)
                 => last'.result = last.result]_vars

\* neither key held resolved to the default mode, which the menu had set
\* to intersect, while one source holds a selection and the other none
C13_Witness ==
  /\ last.op = "_select_mode"
  /\ ~last.shiftKey /\ ~last.ctrlKey
  /\ mode = "intersect"
  /\ last.result = mode
  /\ selection["S"] # {}
  /\ selection["T"] = {}

(***************************************************************************)
(* Drag scenario: one pointer drag after another on the home plot.  The    *)
(* gesture layer calls _select with final = false for each move and with   *)
(* final = true for the release; key-ups arrive in between.  In this       *)
(* scenario log holds the calls of every handler invocation since the drag *)
(* began, in order; the first move of the next drag starts it afresh.      *)
(***************************************************************************)

\* a drag takes no further move or key-up once it has made this many calls
MaxDragCalls == 8

InitDrag ==
  /\ InitTool
  /\ plot_renderers = [v \in Views |-> IF v = Home THEN <<"A", "B", "C">> ELSE <<>>]
  /\ renderer_views = [v \in Views |-> IF v = Home THEN {"A", "B", "C"} ELSE {}]
  /\ data_source = [r \in Renderers |-> IF r = "A" THEN "S" ELSE "T"]
  /\ selection = [s \in Sources |-> {}]
  /\ callback \in BOOLEAN
  /\ xscale = [v \in Views |-> PlainScale]
  /\ yscale = [v \in Views |-> PlainScale]

\* the drag that made the calls of l has had its final _select
Ended(l) == l # <<>> /\ l[Len(l)].call = "trigger_event" /\ l[Len(l)].final

\* the state a handler starts from during a drag
Dragging == [selection |-> selection, log |-> IF Ended(log) THEN <<>> ELSE log]

\* pointer move: this._select(geometry, false, mode)
Drag_pan(v, geometry, m) ==
  /\ v \in Range(clear)
  /\ Len(Dragging.log) < MaxDragCalls
  /\ Ran(_select(Dragging, v, geometry, FALSE, m))
  /\ last' = [op |-> "_select", view |-> v, geometry |-> geometry, final |-> FALSE, mode |-> m]
  /\ UNCHANGED <<config, mode, active>>

\* pointer release: this._select(geometry, true, mode)
Drag_pan_end(v, geometry, m) ==
  /\ v \in Range(clear)
  /\ ~Ended(log)
  /\ Ran(_select(Dragging, v, geometry, TRUE, m))
  /\ last' = [op |-> "_select", view |-> v, geometry |-> geometry, final |-> TRUE, mode |-> m]
  /\ UNCHANGED <<config, mode, active>>

\* a key-up during the drag
Drag_keyup(v, ev) ==
  /\ v \in Range(clear)
  /\ ~Ended(log)
  /\ Len(log) < MaxDragCalls
  /\ Ran(_keyup(Dragging, v, ev))
  /\ last' = [op |-> "_keyup", view |-> v, keyCode |-> ev.keyCode]
  /\ UNCHANGED <<config, mode, active>>

NextDrag ==
  \/ \E g \in DragGeometry, m \in DragModes : Drag_pan(Home, g, m)
  \/ \E g \in DragGeometry, m \in DragModes : Drag_pan_end(Home, g, m)
  \/ \E k \in KeyCodes : Drag_keyup(Home, [keyCode |-> k])

SpecDrag == InitDrag /\ [][NextDrag]_vars

\* an Escape key-up cleared the sources after an intermediate _select of
\* the drag that made the calls of l
EscapedDrag(l) == \E i \in Calls(l, "trigger_event"), j \in Calls(l, "request_render") : i < j /\ ~l[i].final

\* C14: an Escape key-up during a drag empties the selection of the source of
\* every computed renderer at once and keeps the drag going; every _select
\* of a drag that had an Escape key-up after an intermediate _select, the
\* final one too, adds to the drag's calls one select call per group, in the
\* order of the groups and with its own arguments, and then one selection
\* event with its final flag, and leaves each group's source with the
\* selection that update gives.
C14_EscapeKeepsDrag ==
  [][/\ EscapeKeyup(last') =>
          /\ \A r \in Range(computed_renderers(last'.view)) : selection'[data_source[r]] = {}
          /\ Len(log') > Len(log)
          /\ SubSeq(log', 1, Len(log)) = log
     /\ (last'.op = "_select" /\ ~Ended(log) /\ EscapedDrag(log)) =>
          LET keys == _computed_renderers_by_data_source(last'.view).keys
              k == Len(keys)
              n == Len(log)
              cb == IF callback THEN 1 ELSE 0
          IN  /\ k > 0
              /\ Len(log') = n + k + cb + 1
              /\ SubSeq(log', 1, n) = log
              /\ \A i \in 1..k :
                   /\ log'[n + i].call = "select"
                   /\ log'[n + i].sm = keys[i]
                   /\ log'[n + i].geometry = last'.geometry
                   /\ log'[n + i].final = last'.final
                   /\ log'[n + i].mode = last'.mode
                   /\ selection'[keys[i]] = sm_select(selection[keys[i]], hit_test(log'[n + i].r_views, last'.geometry), last'.mode)
              /\ log'[Len(log')].call = "trigger_event"
              /\ log'[Len(log')].final = last'.final]_vars

\* a drag that is over: an intermediate _select, an Escape key-up, another
\* intermediate _select, and the final _select, which left a selection
C14_Witness ==
  /\ last.op = "_select"
  /\ last.final
  /\ Ended(log)
  /\ \E i \in Calls(log, "trigger_event"), j \in Calls(log, "request_render"), k \in Calls(log, "trigger_event") :
       i < j /\ j < k /\ k < Len(log) /\ ~log[i].final /\ ~log[k].final
  /\ \E s \in Sources : selection[s] # {}

(***************************************************************************)
(* Reconfiguration scenario: between the handler invocations the program   *)
(* sets the tool's renderer scope, the plot's renderer list and the data   *)
(* source of a renderer.  In this scenario log holds the calls of the      *)
(* previous handler invocation followed by those of the most recent one.   *)
(***************************************************************************)

\* the renderer lists the plot is given
PlotLists == {<<"A", "B", "C">>, <<"C", "B">>, <<"B", "A">>}

\* plot.renderers = rs, and the plot view rebuilds the renderer views
set_plot_renderers(rs) ==
  /\ plot_renderers[Home] # rs
  /\ plot_renderers' = [plot_renderers EXCEPT ![Home] = rs]
  /\ renderer_views' = [renderer_views EXCEPT ![Home] = Range(rs)]
  /\ last' = [op |-> "configure"]
  /\ UNCHANGED <<data_source, renderers, names, mode, active, callback, clear, xscale, yscale, selection, log>>

\* r.data_source = s
set_data_source(r, s) ==
  /\ data_source[r] # s
  /\ data_source' = [data_source EXCEPT ![r] = s]
  /\ last' = [op |-> "configure"]
  /\ UNCHANGED <<plot_renderers, renderer_views, renderers, names, mode, active, callback, clear, xscale, yscale, selection, log>>

\* the calls of the most recent handler invocation in l: a _select ends
\* with its selection event, a _clear with its render request
Block(l) ==
  LET before == {i \in DOMAIN l : i < Len(l) /\ l[i].call \in {"trigger_event", "request_render"}}
      from == IF before = {} THEN 1 ELSE 1 + CHOOSE i \in before : \A k \in before : k <= i
  IN  SubSeq(l, from, Len(l))

\* the state a handler starts from: the calls of the invocation before it
\* stay in the log
Kept == [selection |-> selection, log |-> Block(log)]

\* this._select(geometry, final, mode), after the invocation before it
Later_select(v, geometry, final, m) ==
  /\ v \in Range(clear)
  /\ Ran(_select(Kept, v, geometry, final, m))
  /\ last' = [op |-> "_select", view |-> v, geometry |-> geometry, final |-> final, mode |-> m]
  /\ UNCHANGED <<config, mode, active>>

\* this._clear(), after the invocation before it
Later_clear(v) ==
  /\ v \in Range(clear)
  /\ Ran(_clear(Kept, v))
  /\ last' = [op |-> "_clear", view |-> v]
  /\ UNCHANGED <<config, mode, active>>

\* the tool is constructed with the default mode replace or append
InitScope ==
  /\ InitScenario
  /\ mode \in {"replace", "append"}
  /\ xscale = [v \in Views |-> PlainScale]
  /\ yscale = [v \in Views |-> PlainScale]

NextScope ==
  \/ \E scope \in Scopes : set_renderers(scope)
  \/ \E rs \in PlotLists : set_plot_renderers(rs)
  \/ \E s \in Sources : set_data_source("B", s)
  \/ \E g \in DragGeometry : Later_select(Home, g, TRUE, mode)
  \/ Later_clear(Home)

SpecScope == InitScope /\ [][NextScope]_vars

\* the select calls of a sequence of calls, as <<sm, r_views>>
Updates(l) == LET sel == SelectSeq(l, LAMBDA e : e.call = "select") IN [i \in DOMAIN sel |-> <<sel[i].sm, sel[i].r_views>>]

\* the calls in l of the invocation before the most recent one
Previous(l) == SubSeq(l, 1, Len(l) - Len(Block(l)))

\* C15: the select calls of a _select are those of the groups of the scope,
\* the plot's renderer list, the live views and the data sources as they
\* are when it is called: one call per source of a glyph or graph renderer
\* that the scope resolves to on the plot's list, in the order in which the
\* sources first occur there, with the live views of that source's
\* renderers; the clear calls of a _clear are those of the renderers the
\* scope resolves to at that time, each on the renderer's source at that
\* time.  What the invocation before it acted on plays no part.
C15_ActsOnCurrentState ==
  /\ last.op = "_select" =>
       LET now == compute_renderers(renderers, plot_renderers[last.view], names)
           sel == Updates(Block(log))
           first(s) == CHOOSE i \in DOMAIN now : /\ HasSource(now[i]) /\ data_source[now[i]] = s
                                                 /\ \A j \in 1..(i - 1) : ~(HasSource(now[j]) /\ data_source[now[j]] = s)
       IN  /\ {sel[i][1] : i \in DOMAIN sel} = {data_source[r] : r \in {x \in Range(now) : HasSource(x)}}
           /\ \A i \in DOMAIN sel : \A j \in DOMAIN sel : i < j => first(sel[i][1]) < first(sel[j][1])
           /\ \A i \in DOMAIN sel : sel[i][2] = Filter(now, {r \in renderer_views[last.view] : HasSource(r) /\ data_source[r] = sel[i][1]})
  /\ last.op = "_clear" =>
       LET now == compute_renderers(renderers, plot_renderers[last.view], names)
           b == Block(log)
       IN  /\ Cleared(b) = now
           /\ \A i \in Calls(b, "clear") : b[i].sm = data_source[b[i].renderer]

\* a _select over two groups after a _select over one group of two: in
\* between, the scope was set to a list and a renderer's source changed
C15_Witness ==
  /\ last.op = "_select"
  /\ renderers # Auto
  /\ Previous(log) # <<>>
  /\ Previous(log)[Len(Previous(log))].call = "trigger_event"
  /\ Len(Updates(Previous(log))) = 1
  /\ Len(Updates(Previous(log))[1][2]) = 2
  /\ Len(Updates(Block(log))) = 2

(***************************************************************************)
(* Order within the groups; what grouping leaves alone (SpecScope)         *)
(***************************************************************************)

\* the elements of sub follow one another as they do in whole
Ordered(sub, whole) ==
  \A i \in DOMAIN sub : \A j \in DOMAIN sub :
    i < j => (CHOOSE k \in DOMAIN whole : whole[k] = sub[i]) < (CHOOSE k \in DOMAIN whole : whole[k] = sub[j])

\* C16: when a _select runs, the renderers of each group follow one another
\* as they do in the computed renderers, and so do the views each select
\* call gets.  Building the groups leaves the scope, the names, the plot's
\* renderers and the data sources as they are, leaves the selection of every
\* source without a group as it is, and the _select makes no clear call
\* and no render request.
C16_GroupingStableAndPure ==
  [][last'.op = "_select" =>
       LET whole == computed_renderers(last'.view)
           by_source == _computed_renderers_by_data_source(last'.view)
           made == Block(log')
       IN  /\ \A id \in Range(by_source.keys) : Ordered(by_source.map[id], whole)
           /\ \A i \in Calls(made, "select") : Ordered(made[i].r_views, whole)
           /\ renderers' = renderers /\ names' = names
           /\ plot_renderers' = plot_renderers /\ data_source' = data_source
           /\ \A s \in Sources \ Range(by_source.keys) : selection'[s] = selection[s]
           /\ Calls(made, "request_render") = {} /\ Calls(made, "clear") = {}]_vars

\* a _select on a plot that lists the graph renderer before the glyph
\* renderer: the two share a source, whose select call got both views in
\* the plot's order, while the other source, which has no group, kept the
\* selection an earlier _select gave it
C16_Witness ==
  /\ last.op = "_select"
  /\ Updates(Block(log)) = <<(<<data_source["A"], <<"B", "A">> >>)>>
  /\ data_source["B"] = data_source["A"]
  /\ \E s \in Sources : data_source["A"] # s /\ selection[s] # {}

(***************************************************************************)
(* Renderers without a live view (Spec)                                    *)
(***************************************************************************)

\* C17: a renderer without a live view stays in its group: after a _select
\* the groups of the view still hold every computed glyph or graph renderer,
\* and each group got exactly one select call, made on the selection manager
\* of the group's first renderer, whether or not that renderer has a live
\* view, with the views of the group's renderers that have one, in order:
\* the empty sequence when none has.
C17_NoViewKeepsGroupAndCall ==
  last.op = "_select" =>
    LET by_source == _computed_renderers_by_data_source(last.view)
        live == renderer_views[last.view]
    IN  /\ \A r \in Range(computed_renderers(last.view)) : (HasSource(r) /\ r \notin live) => r \in Flat(by_source)
        /\ Cardinality(Calls(log, "select")) = Len(by_source.keys)
        /\ \A n \in DOMAIN by_source.keys :
             LET group == by_source.map[by_source.keys[n]]
             IN  /\ log[n].call = "select"
                 /\ log[n].sm = get_selection_manager(group[1])
                 /\ log[n].r_views = SelectSeq(group, LAMBDA r : r \in live)
                 /\ (Range(group) \cap live = {}) => log[n].r_views = <<>>

\* a _select over a group of two whose first renderer has no live view
\* while the second has one: one select call, on the source the first
\* renderer draws from, with the view of the second
C17_Witness ==
  /\ last.op = "_select"
  /\ LET by_source == _computed_renderers_by_data_source(last.view)
         group == by_source.map[by_source.keys[1]]
     IN  /\ Len(by_source.keys) = 1
         /\ Len(group) = 2
         /\ group[1] \notin renderer_views[last.view]
         /\ group[2] \in renderer_views[last.view]
         /\ log[1].call = "select"
         /\ log[1].sm = data_source[group[1]]
         /\ log[1].r_views = <<group[2]>>
  /\ Cardinality(Calls(log, "select")) = 1

(***************************************************************************)
(* What the handlers leave alone (Spec)                                    *)
(***************************************************************************)

\* C18: a _clear, whether called directly, by the slot of the clear signal
\* or by an Escape key-up, publishes no event and runs no callback; a
\* _select requests no render; a key-up of a key other than Escape makes no
\* call at all and leaves every selection as it is.
C18_HandlersKeepToTheirCalls ==
  [][/\ (last'.op \in {"_clear", "clear.emit"} \/ EscapeKeyup(last')) =>
          /\ Calls(log', "trigger_event") = {}
          /\ Calls(log', "_emit_callback") = {}
          /\ Calls(log', "select") = {}
     /\ last'.op = "_select" => Calls(log', "request_render") = {}
     /\ (last'.op = "_keyup" /\ last'.keyCode # Keys_Esc) =>
          /\ selection' = selection
          /\ log' = <<>>]_vars

\* a key-up of another key than Escape on a view with computed renderers,
\* with a callback configured, while a source holds a selection
C18_Witness ==
  /\ last.op = "_keyup"
  /\ last.keyCode # Keys_Esc
  /\ callback
  /\ Len(computed_renderers(last.view)) >= 2
  /\ \E s \in Sources : selection[s] # {}
  /\ log = <<>>

(***************************************************************************)
(* The menu (SpecMode)                                                     *)
(***************************************************************************)

\* C19: at any time exactly one of the four mode items of the menu reports
\* active.  The handler of a mode item sets the default mode to the item's
\* mode and the tool active, so that this item is the one that reports
\* active; no other handler changes which item does.  The handler of the
\* clear item emits the clear signal, so that the slot of every connected
\* view runs once, and leaves the default mode and the active flag as they
\* are.
C19_MenuItemsFollowLastHandler ==
  [][/\ Cardinality({m \in SelectionMode : menu_active(m)}) = 1
     /\ Cardinality({m \in SelectionMode : menu_active(m)'}) = 1
     /\ last'.op = "menu" =>
          /\ mode' = last'.item
          /\ active'
          /\ \A m \in SelectionMode : menu_active(m)' <=> m = last'.item
     /\ last'.op # "menu" => \A m \in SelectionMode : menu_active(m)' = menu_active(m)
     /\ last'.op = "clear.emit" =>
          /\ mode' = mode
          /\ active' = active
          /\ \A u \in Range(clear) : Renders(log', u) = 1]_vars

\* the clear item's handler ran after the handler of the subtract item,
\* with two views connected: the tool is still active, subtract is still
\* the item that reports active, and both slots ran
C19_Witness ==
  /\ last.op = "clear.emit"
  /\ active
  /\ {m \in SelectionMode : menu_active(m)} = {"subtract"}
  /\ Len(clear) = 2
  /\ \A u \in Range(clear) : Renders(log, u) = 1

====
